---- MODULE Spec2Model ----
(***************************************************************************)
(* The NSKeyedArchiver object-graph codec of bpylist:                      *)
(*   Archive   (archiver.py)  flattens a live object graph into a table,   *)
(*   Unarchive (archiver.py)  materializes a graph from a table,           *)
(*   DefaultClassMap / OpaqueClassMap (archiver.py)  the class registries, *)
(*   the built-in delegates (archive_types.py).                            *)
(*                                                                         *)
(* Python objects live in a heap: a sequence of objects, an object's       *)
(* identity (id(obj)) being its position.  Reference 0 is None.  A         *)
(* recursive call of the source is a frame on an explicit stack, and one   *)
(* action is one call or one loop iteration of the source.                 *)
(***************************************************************************)
EXTENDS Integers, Sequences, FiniteSets, TLC

VARIABLES
  phase,          \* which call of the public surface is running
  opaque,         \* the opaque argument of dumps / loads
  err,            \* the exception that ended the call, or "none"
  heap,           \* the objects handed to dumps (encoder input)
  expanded,       \* the containers of heap whose elements have been read
  root,           \* the object passed to dumps
  objects,        \* Archive.objects
  owner,          \* history: for each slot of objects, the identity archived there
  ref_cache,      \* Archive.ref_cache
  class_cache,    \* Archive.class_cache
  stack,          \* the call stack of the running call
  lastcall,       \* history: the last return of Archive.archive
  archive,        \* the envelope to_bytes hands to the primitive-value codec
  types,          \* the types fabricated by OpaqueClassMap._make_class
  opaque_cache,   \* OpaqueClassMap.class_cache of the running call
  todo,           \* the calls the caller makes after the running one
  dobjects,       \* Unarchive.objects
  top_uid,        \* Unarchive.top_uid
  unpacked_uids,  \* Unarchive.unpacked_uids
  dheap,          \* the objects loads has created
  raw_ref,        \* for a primitive slot, the object the parsed plist holds there
  result,         \* the value loads returned
  populated,      \* history: per UID, the calls of a delegate's decode_archive
  derefs,         \* history: per UID, the objects decode_object returned for it
  class_map,      \* the two tables of the DefaultClassMap of the call
  updated,        \* history: the bindings of the last DefaultClassMap.update
  steps,          \* history: the steps the running call has taken
  class_maps      \* the class_map argument of each call the caller makes

vars == <<phase, opaque, err, heap, expanded, root, objects, owner,
          ref_cache, class_cache, stack, lastcall, archive, types, opaque_cache,
          todo, dobjects, top_uid, unpacked_uids, dheap, raw_ref, result,
          populated, derefs, class_map, updated, steps, class_maps>>

(***************************************************************************)
(* Bounds of the model.                                                    *)
(***************************************************************************)
MaxObjs == 3      \* objects in the graph handed to dumps
MaxRefs == 3      \* references held by the containers of that graph
MaxBindings == 2  \* bindings of one DefaultClassMap.update

(***************************************************************************)
(* Program constants.                                                      *)
(***************************************************************************)
NSKeyedArchiveVersion == 100000
unix2apple_epoch_delta == 978307200

None == 0
null_uid == 0

(***************************************************************************)
(* Values.  A value of a primitive type carries its payload in v and e     *)
(* (numbers) or s (text, bytes); a container carries references into its   *)
(* heap.  A number is e * unix2apple_epoch_delta + v, kept as the pair so  *)
(* that sums of epoch deltas stay within 32-bit integers.                  *)
(***************************************************************************)
PStr(s) == [kind |-> "str", s |-> s]
PInt(v) == [kind |-> "int", v |-> v, e |-> 0]
PFloat(v) == [kind |-> "float", v |-> v, e |-> 0]
PBytes(s) == [kind |-> "bytes", s |-> s]
U(n) == [kind |-> "uid", v |-> n, e |-> 0]
Ts(v) == [kind |-> "timestamp", v |-> v, e |-> 0]
Seconds(x) == x.e * unix2apple_epoch_delta + x.v
NumEq(x, y) == x.v = y.v /\ x.e = y.e
Cont(k) == [kind |-> k, items |-> <<>>]
DictObj(k) == [kind |-> k, keys |-> <<>>, vals |-> <<>>]
Data(s) == [kind |-> "MutableData", s |-> s]

\* An instance of a class of the caller's that no registry knows.
Instance == [kind |-> "object"]

\* A keyed record of the table (a Python dict), and the values of its keys.
EmptyDict == [k \in {} |-> 0]
Rec(d) == [kind |-> "rec", d |-> d]
UidList(s) == [kind |-> "uids", items |-> s]
Names(chain) == [kind |-> "names", names |-> chain]
NullSlot == PStr("$null")

IsRec(slot) == slot.kind = "rec"
HasKey(slot, key) == key \in DOMAIN slot.d
SetKey(slot, key, val) ==
  Rec([k \in DOMAIN slot.d \cup {key} |-> IF k = key THEN val ELSE slot.d[k]])

\* Table slot of UID i (the table is 0-based, a TLA+ sequence 1-based).
Slot(objs, i) == objs[i + 1]
SetSlot(objs, i, val) == [objs EXCEPT ![i + 1] = val]

Top == stack[Len(stack)]
Pop(st) == SubSeq(st, 1, Len(st) - 1)
SetTop(st, f) == [st EXCEPT ![Len(st)] = f]

PrimitiveKinds == {"int", "float", "bool", "str", "bytes", "uid"}
InlineKinds_none == {}

InlineKinds == {"int", "float", "bool"}
NumericKinds == {"int", "float", "bool", "uid", "timestamp"}
ListKinds == {"list", "set", "MutableArray", "MutableSet"}
DictKinds == {"dict", "MutableDict"}
\* list, dict, set, bytearray and their subclasses define no __hash__.
UnhashableKinds == ListKinds \cup DictKinds \cup {"MutableData"}

Hashable(h, r) == r = None \/ h[r].kind \notin UnhashableKinds

\* Python's == on two hashable objects.
PyEq(h, a, b) ==
  \/ a = b
  \/ /\ a # None /\ b # None
     /\ \/ h[a].kind \in NumericKinds /\ h[b].kind \in NumericKinds /\ NumEq(h[a], h[b])
        \/ h[a].kind = "str" /\ h[b].kind = "str" /\ h[a].s = h[b].s
        \/ h[a].kind = "bytes" /\ h[b].kind = "bytes" /\ h[a].s = h[b].s

Distinct(h, refs) ==
  \A i, j \in 1..Len(refs) : i # j => ~PyEq(h, refs[i], refs[j])

(***************************************************************************)
(* DefaultClassMap.                                                        *)
(***************************************************************************)
unarchive_class_map ==
  [n \in {"NSDictionary", "NSMutableDictionary", "NSArray", "NSMutableArray",
          "NSSet", "NSMutableSet", "NSMutableData", "NSDate"} |->
     CASE n = "NSDictionary" -> "Dict"
       [] n = "NSMutableDictionary" -> "MutableDict"
       [] n = "NSArray" -> "Array"
       [] n = "NSMutableArray" -> "MutableArray"
       [] n = "NSSet" -> "Set"
       [] n = "NSMutableSet" -> "MutableSet"
       [] n = "NSMutableData" -> "MutableData"
       [] n = "NSDate" -> "timestamp_decoder"]

archive_class_map ==
  [c \in {"dict", "MutableDict", "list", "MutableArray", "set", "MutableSet",
          "MutableData", "timestamp"} |->
     CASE c = "dict" -> "NSDictionary"
       [] c = "MutableDict" -> "NSMutableDictionary"
       [] c = "list" -> "NSArray"
       [] c = "MutableArray" -> "NSMutableArray"
       [] c = "set" -> "NSSet"
       [] c = "MutableSet" -> "NSMutableSet"
       [] c = "MutableData" -> "NSMutableData"
       [] c = "timestamp" -> "NSDate"]

\* DefaultClassMap.__init__
DefaultClassMap_init ==
  [unarchive_class_map |-> unarchive_class_map, archive_class_map |-> archive_class_map]

\* DefaultClassMap.update with the bindings of new_map in the order the
\* mapping holds them: a later binding of a type replaces an earlier one in
\* the reversed mapping.
RECURSIVE DefaultClassMap_update(_, _)
DefaultClassMap_update(cm, new_map) ==
  IF Len(new_map) = 0 THEN cm
  ELSE LET k == Head(new_map)[1]
           v == Head(new_map)[2]
       IN DefaultClassMap_update(
            [unarchive_class_map |-> (k :> v) @@ cm.unarchive_class_map,
             archive_class_map |-> (v :> k) @@ cm.archive_class_map],
            Tail(new_map))

\* klass.startswith('NSMutable') and 'NS' + klass[len('NSMutable'):], on
\* the wire names of the registry.
MutableStem ==
  [n \in {"NSMutableDictionary", "NSMutableArray", "NSMutableSet", "NSMutableData"} |->
     CASE n = "NSMutableDictionary" -> "Dictionary"
       [] n = "NSMutableArray" -> "Array"
       [] n = "NSMutableSet" -> "Set"
       [] n = "NSMutableData" -> "Data"]

DefaultClassMap_get_objc_class_any(cls) == <<"NSObject">>

\* DefaultClassMap.get_objc_class; <<>> is None.
DefaultClassMap_get_objc_class(cls) ==
  IF cls \notin DOMAIN class_map.archive_class_map THEN <<>>
  ELSE LET klass == class_map.archive_class_map[cls] IN
       IF klass \in DOMAIN MutableStem
       THEN <<klass, "NS" \o MutableStem[klass], "NSObject">>
       ELSE <<klass, "NSObject">>

\* The classes that define encode_archive.
HasEncodeArchive(cls) == cls \in {"timestamp", "opaque"}

(***************************************************************************)
(* OpaqueClassMap.  A fabricated type is an entry of types: its __name__   *)
(* and its single base (0 is OpaqueObject itself).                         *)
(***************************************************************************)
RECURSIVE OpaqueClassMap_get_class_chain(_, _)
OpaqueClassMap_get_class_chain(ts, cls) ==
  IF cls = 0 THEN <<>>
  ELSE <<ts[cls].name>> \o OpaqueClassMap_get_class_chain(ts, ts[cls].base)

\* OpaqueClassMap.get_objc_class over the DefaultClassMap.
OpaqueClassMap_get_objc_class(ts, o) ==
  IF o.kind = "opaque" THEN OpaqueClassMap_get_class_chain(ts, o.cls)
  ELSE DefaultClassMap_get_objc_class(o.kind)

timestamp_encode_archive_asis(self) == [kind |-> "float", v |-> self.v, e |-> self.e]

\* timestamp.encode_archive: offset = self - timestamp.unix2apple_epoch_delta
timestamp_encode_archive(self) == [kind |-> "float", v |-> self.v, e |-> self.e - 1]

\* self.class_map.get_objc_class(cls) of the running call.
get_objc_class(ts, o) ==
  IF opaque THEN OpaqueClassMap_get_objc_class(ts, o)
  ELSE DefaultClassMap_get_objc_class(o.kind)

(***************************************************************************)
(* The graph handed to dumps.  The encoder only reads it, so the elements  *)
(* of a container are chosen, within the bounds, when the encoder first    *)
(* reads them: a code c > 0 is the object c already in the heap, 0 is      *)
(* None, and -k is a new object, a copy of Templates[k].  The mutable      *)
(* container variants, which the encoder treats like the byte buffer, are  *)
(* roots only.                                                             *)
(***************************************************************************)
\* The values an element can be, and the values the root can be.
ElementTemplates ==
  << PStr("a"), PStr("b"), PInt(1), Ts(0), Cont("list"), DictObj("dict"), Cont("set"),
     Data("x"), Instance >>

Templates ==
  ElementTemplates \o << Cont("MutableArray"), DictObj("MutableDict"), Cont("MutableSet") >>

RECURSIVE Resolve(_, _)
Resolve(specs, h) ==
  IF Len(specs) = 0 THEN [heap |-> h, refs |-> <<>>]
  ELSE LET s == Head(specs)
           h1 == IF s < 0 THEN Append(h, Templates[0 - s]) ELSE h
           r == IF s < 0 THEN Len(h1) ELSE s
           rest == Resolve(Tail(specs), h1)
       IN [heap |-> rest.heap, refs |-> <<r>> \o rest.refs]

RefsOf(o) ==
  IF o.kind \in ListKinds THEN Len(o.items)
  ELSE IF o.kind \in DictKinds THEN 2 * Len(o.keys)
  ELSE IF o.kind = "opaque" THEN Len(o.vals)
  ELSE 0

RECURSIVE RefCount(_, _)
RefCount(h, n) == IF n = 0 THEN 0 ELSE RefCount(h, n - 1) + RefsOf(h[n])

RefsLeft(h) ==
  LET left == MaxRefs - RefCount(h, Len(h)) IN IF left < 0 THEN 0 ELSE left

Odd(s) == [i \in 1..(Len(s) \div 2) |-> s[2 * i - 1]]
Even(s) == [i \in 1..(Len(s) \div 2) |-> s[2 * i]]

\* The heaps in which the elements of container obj are chosen.
Expansions(h, obj) ==
  LET codes == (0 - Len(ElementTemplates)) .. Len(h)
      isdict == h[obj].kind \in DictKinds
      lens == IF isdict THEN {2 * n : n \in 0..(RefsLeft(h) \div 2)} ELSE 0..RefsLeft(h)
      cand == UNION { [1..n -> codes] : n \in lens }
      ok(c) == LET r == Resolve(c, h) IN
               /\ Len(r.heap) <= MaxObjs
               /\ h[obj].kind = "set" =>
                    /\ \A i \in 1..Len(r.refs) : Hashable(r.heap, r.refs[i])
                    /\ Distinct(r.heap, r.refs)
               /\ isdict =>
                    /\ \A i \in 1..Len(Odd(r.refs)) : Hashable(r.heap, Odd(r.refs)[i])
                    /\ Distinct(r.heap, Odd(r.refs))
      fill(c) == LET r == Resolve(c, h) IN
                 IF isdict
                 THEN [r.heap EXCEPT ![obj] = [kind |-> h[obj].kind, keys |-> Odd(r.refs), vals |-> Even(r.refs)]]
                 ELSE [r.heap EXCEPT ![obj] = [kind |-> h[obj].kind, items |-> r.refs]]
  IN { fill(c) : c \in {c \in cand : ok(c)} }

(***************************************************************************)
(* A step of a call computes the new values of the variables from the      *)
(* current ones.                                                           *)
(***************************************************************************)
Cur ==
  [phase |-> phase, opaque |-> opaque, err |-> err, heap |-> heap,
   expanded |-> expanded, root |-> root, objects |-> objects, owner |-> owner,
   ref_cache |-> ref_cache, class_cache |-> class_cache, stack |-> stack,
   lastcall |-> lastcall, archive |-> archive, types |-> types,
   opaque_cache |-> opaque_cache, todo |-> todo, dobjects |-> dobjects,
   top_uid |-> top_uid, unpacked_uids |-> unpacked_uids, dheap |-> dheap,
   raw_ref |-> raw_ref, result |-> result, populated |-> populated,
   derefs |-> derefs, steps |-> steps, class_map |-> class_map, updated |-> updated,
   class_maps |-> class_maps]

\* An exception leaves the call: nothing catches it.
Raise(n, e) == [n EXCEPT !.phase = "failed", !.err = e, !.stack = <<>>]

\* The interpreter's recursion limit, scaled to the bounded graphs: no call
\* on a graph within the bounds nests this deep unless it recurses for ever.
RecursionLimit == 4 * (MaxObjs + 2)

Step(n) == IF Len(n.stack) > RecursionLimit THEN Raise(n, "RecursionError") ELSE n

Apply(s) ==
  LET n == Step(s) IN
  /\ phase' = n.phase
  /\ opaque' = n.opaque
  /\ err' = n.err
  /\ heap' = n.heap
  /\ expanded' = n.expanded
  /\ root' = n.root
  /\ objects' = n.objects
  /\ owner' = n.owner
  /\ ref_cache' = n.ref_cache
  /\ class_cache' = n.class_cache
  /\ stack' = n.stack
  /\ lastcall' = n.lastcall
  /\ archive' = n.archive
  /\ types' = n.types
  /\ opaque_cache' = n.opaque_cache
  /\ todo' = n.todo
  /\ dobjects' = n.dobjects
  /\ top_uid' = n.top_uid
  /\ unpacked_uids' = n.unpacked_uids
  /\ dheap' = n.dheap
  /\ raw_ref' = n.raw_ref
  /\ result' = n.result
  /\ populated' = n.populated
  /\ derefs' = n.derefs
  /\ steps' = n.steps + 1
  /\ class_map' = n.class_map
  /\ updated' = n.updated
  /\ class_maps' = n.class_maps

\* The return of dumps or loads: the caller goes on to its next call.
Finish(n) ==
  IF n.todo = <<>> THEN [n EXCEPT !.phase = "done", !.stack = <<>>]
  ELSE [n EXCEPT !.phase = Head(n.todo), !.todo = Tail(n.todo), !.stack = <<>>]

(***************************************************************************)
(* Archive: the encoder.                                                   *)
(***************************************************************************)
RefCacheHit_never(rc, obj) == FALSE

\* ref = self.ref_cache.get(id(obj)); if ref:
RefCacheHit(rc, obj) == obj \in DOMAIN rc /\ rc[obj] # 0

ClassCacheHit_never(cc, name) == FALSE

\* val = self.class_cache.get(class_chain[0]); if val:
ClassCacheHit(cc, name) == name \in DOMAIN cc /\ cc[name] # 0

new_uid_last(objs) == Len(objs) - 1

\* uid(len(self.objects)), the UID of the slot the next append makes
new_uid(objs) == Len(objs)

\* Archive.uid_for_class_chain: the state after the call, and the UID it returns.
uid_for_class_chain(n, chain) ==
  IF ClassCacheHit(n.class_cache, chain[1]) THEN n
  ELSE [n EXCEPT !.class_cache = (chain[1] :> new_uid(n.objects)) @@ @,
                 !.objects = Append(@, Rec(("$classes" :> Names(chain)) @@
                                           ("$classname" :> PStr(chain[1])))),
                 !.owner = Append(@, 0)]

class_uid(n, chain) ==
  IF ClassCacheHit(n.class_cache, chain[1]) THEN n.class_cache[chain[1]]
  ELSE new_uid(n.objects)

\* archive_obj['$class'] = self.uid_for_class_chain(chain)
set_class(n, idx, chain) ==
  LET m == uid_for_class_chain(n, chain) IN
  [m EXCEPT !.objects = SetSlot(@, idx, SetKey(Slot(@, idx), "$class", U(class_uid(n, chain))))]

\* The return of a call of Archive.archive to its caller; n.stack is the
\* caller's stack.
archive_return(n, obj, val, hit) ==
  LET m == [n EXCEPT !.lastcall = [obj |-> obj, ret |-> val, hit |-> hit]] IN
  IF m.stack = <<>> THEN m
  ELSE LET f == m.stack[Len(m.stack)] IN
    CASE f.op = "encode_list" ->
           \* [self.archive(obj) for obj in objs]
           [m EXCEPT !.stack = SetTop(@, [f EXCEPT !.acc = Append(@, val), !.i = @ + 1])]
      [] f.op = "encode_dict" ->
           IF Len(f.keys) < f.i
           THEN \* keys.append(self.archive(k))
                [m EXCEPT !.stack = SetTop(@, [f EXCEPT !.keys = Append(@, val)])]
           ELSE \* vals.append(self.archive(obj[k]))
                [m EXCEPT !.stack = SetTop(@, [f EXCEPT !.vals = Append(@, val), !.i = @ + 1])]
      [] f.op = "encode_archive" ->
           \* ArchivingObject.encode: self._archive_obj[key] = val
           [m EXCEPT !.stack = SetTop(@, [f EXCEPT !.i = @ + 1]),
                     !.objects = SetSlot(@, f.idx,
                                   SetKey(Slot(@, f.idx), m.heap[f.obj].attrs[f.i], U(val)))]
      [] OTHER -> m

remember_nothing(rc, obj, index) == rc

\* self.ref_cache[id(obj)] = index, before obj is encoded
remember(rc, obj, index) == (obj :> index) @@ rc

\* Archive.archive up to its call of encode_top_level.
archive_step(n, obj) ==
  LET popped == [n EXCEPT !.stack = Pop(@)]
      index == new_uid(n.objects)
  IN
  IF obj = None THEN archive_return(popped, obj, null_uid, FALSE)
  ELSE IF RefCacheHit(n.ref_cache, obj)
  THEN archive_return(popped, obj, n.ref_cache[obj], TRUE)
  ELSE LET cached == [popped EXCEPT !.ref_cache = remember(@, obj, index)] IN
       IF n.heap[obj].kind \in PrimitiveKinds
       THEN archive_return([cached EXCEPT !.objects = Append(@, n.heap[obj]),
                                         !.owner = Append(@, obj)], obj, index, FALSE)
       ELSE [cached EXCEPT !.objects = Append(@, Rec(EmptyDict)),
                           !.owner = Append(@, obj),
                           !.stack = Append(@, [op |-> "encode_top_level", obj |-> obj,
                                                idx |-> index])]

Archive_archive ==
  /\ phase = "encode" /\ stack # <<>> /\ Top.op = "archive"
  /\ Apply(archive_step(Cur, Top.obj))

\* Archive.encode_top_level with the encode_list / encode_set / encode_dict
\* it dispatches to, up to the first element, and the delegates' encode_archive.
encode_top_level_step(n, obj, idx) ==
  LET h == n.heap
      cls == h[obj].kind
      popped == [n EXCEPT !.stack = Pop(@)]
  IN
  CASE cls = "list" ->
         [set_class(popped, idx, <<"NSArray", "NSObject">>) EXCEPT
            !.stack = Append(@, [op |-> "encode_list", obj |-> obj, idx |-> idx,
                                 i |-> 1, acc |-> <<>>])]
    [] cls = "set" ->
         [set_class(popped, idx, <<"NSSet", "NSObject">>) EXCEPT
            !.stack = Append(@, [op |-> "encode_list", obj |-> obj, idx |-> idx,
                                 i |-> 1, acc |-> <<>>])]
    [] cls = "dict" ->
         [set_class(popped, idx, <<"NSDictionary", "NSObject">>) EXCEPT
            !.stack = Append(@, [op |-> "encode_dict", obj |-> obj, idx |-> idx,
                                 i |-> 1, keys |-> <<>>, vals |-> <<>>])]
    [] OTHER ->
         LET archiver == get_objc_class(types, h[obj]) IN
         IF archiver = <<>>
         THEN \* None, or the empty chain of OpaqueObject itself: class_chain[0]
              Raise(n, IF n.opaque /\ cls = "opaque" THEN "IndexError"
                       ELSE "MissingClassMapping")
         ELSE LET m == set_class(popped, idx, archiver) IN
              IF ~HasEncodeArchive(cls) THEN Raise(m, "AttributeError")
              ELSE IF cls = "timestamp"
              THEN \* offset = self - unix2apple_epoch_delta, an inline float
                   archive_return(
                     [m EXCEPT !.objects = SetSlot(@, idx, SetKey(Slot(@, idx), "NS.time",
                                              timestamp_encode_archive(h[obj])))],
                     obj, idx, FALSE)
              ELSE [m EXCEPT !.stack = Append(@, [op |-> "encode_archive", obj |-> obj,
                                                  idx |-> idx, i |-> 1])]

Archive_encode_top_level ==
  /\ phase = "encode" /\ stack # <<>> /\ Top.op = "encode_top_level"
  /\ \E h \in (IF Top.obj \in expanded \/ heap[Top.obj].kind \notin {"list", "set", "dict"}
                THEN {heap} ELSE Expansions(heap, Top.obj)) :
       Apply(encode_top_level_step(
               [Cur EXCEPT !.heap = h, !.expanded = @ \cup {Top.obj}], Top.obj, Top.idx))

\* One iteration of [self.archive(obj) for obj in objs], or the assignment
\* of NS.objects and the return of archive.
Archive_encode_list ==
  /\ phase = "encode" /\ stack # <<>> /\ Top.op = "encode_list"
  /\ LET f == Top
         objs == heap[f.obj].items
     IN Apply(
          IF f.i <= Len(objs)
          THEN [Cur EXCEPT !.stack = Append(@, [op |-> "archive", obj |-> objs[f.i]])]
          ELSE archive_return(
                 [Cur EXCEPT !.stack = Pop(@),
                             !.objects = SetSlot(@, f.idx, SetKey(Slot(@, f.idx),
                                                  "NS.objects", UidList(f.acc)))],
                 f.obj, f.idx, FALSE))

\* One archive call of the loop of encode_dict, or its two assignments and
\* the return of archive.
Archive_encode_dict ==
  /\ phase = "encode" /\ stack # <<>> /\ Top.op = "encode_dict"
  /\ LET f == Top
         o == heap[f.obj]
     IN Apply(
          IF f.i <= Len(o.keys)
          THEN [Cur EXCEPT !.stack = Append(@, [op |-> "archive",
                   obj |-> IF Len(f.keys) < f.i THEN o.keys[f.i] ELSE o.vals[f.i]])]
          ELSE archive_return(
                 [Cur EXCEPT !.stack = Pop(@),
                             !.objects = SetSlot(@, f.idx,
                                SetKey(SetKey(Slot(@, f.idx), "NS.keys", UidList(f.keys)),
                                       "NS.objects", UidList(f.vals)))],
                 f.obj, f.idx, FALSE))

\* One iteration of OpaqueObject.encode_archive: archive.encode(k, v), with
\* Archive.encode returning a value of an inline type as it is.
OpaqueObject_encode_archive ==
  /\ phase = "encode" /\ stack # <<>> /\ Top.op = "encode_archive"
  /\ LET f == Top
         o == heap[f.obj]
         v == o.vals[f.i]
     IN Apply(
          IF f.i > Len(o.vals)
          THEN archive_return([Cur EXCEPT !.stack = Pop(@)], f.obj, f.idx, FALSE)
          ELSE IF v # None /\ heap[v].kind \in InlineKinds
          THEN [Cur EXCEPT !.stack = SetTop(@, [f EXCEPT !.i = @ + 1]),
                           !.objects = SetSlot(@, f.idx,
                                         SetKey(Slot(@, f.idx), o.attrs[f.i], heap[v]))]
          ELSE [Cur EXCEPT !.stack = Append(@, [op |-> "archive", obj |-> v])])

\* The plist of an archive: $archiver, $version, the type of $top, the type
\* and the value of $top['root'], the type of $objects and its slots (the
\* type of a missing key is NoneType, as dict.get has it).
Envelope(archiver, version, top, rootkind, top_root, objkind, objs) ==
  [archiver |-> archiver, version |-> version, top |-> top, rootkind |-> rootkind,
   root |-> top_root, objkind |-> objkind, objects |-> objs]

\* Archive.to_bytes: the call of archive, then the envelope.
Archive_to_bytes ==
  /\ phase = "encode" /\ stack # <<>> /\ Top.op = "to_bytes"
  /\ Apply(
       IF ~Top.called
       THEN [Cur EXCEPT !.stack = <<[op |-> "to_bytes", called |-> TRUE]>> \o
                          (IF Len(objects) = 1 THEN <<[op |-> "archive", obj |-> root]>>
                           ELSE <<>>)]
       ELSE Finish([Cur EXCEPT !.archive =
                      Envelope("NSKeyedArchiver", NSKeyedArchiveVersion, "dict", "uid", 1,
                               "list", objects)]))

\* The class_map argument of the call the caller makes next: a mapping as
\* the sequence of its bindings, <<>> for None.
class_map_argument(n) ==
  LET i == Len(n.class_maps) - Len(n.todo) IN
  IF i \in 1..Len(n.class_maps) THEN n.class_maps[i] ELSE <<>>

call_class_map_kept(last, new_map) == DefaultClassMap_update(last, new_map)

\* self.class_map = DefaultClassMap() of Archive.__init__ or
\* Unarchive.__init__, then class_map.update(class_map) if the caller passed
\* a mapping; last is the registry of the call before.
call_class_map(last, new_map) == DefaultClassMap_update(DefaultClassMap_init, new_map)

\* dumps: Archive(obj), the class map, to_bytes.  The caller passes the
\* graph it built or, after loads, the value loads returned.
dumps ==
  /\ phase \in {"dumps", "dumps_result"}
  /\ Apply([Cur EXCEPT
       !.heap = IF phase = "dumps_result" THEN dheap ELSE @,
       !.root = IF phase = "dumps_result" THEN result ELSE @,
       !.expanded = IF phase = "dumps_result" THEN 1..Len(dheap) ELSE @,
       !.objects = <<NullSlot>>,
       !.owner = <<0>>,
       !.ref_cache = EmptyDict,
       !.class_cache = EmptyDict,
       !.opaque_cache = EmptyDict,
       !.class_map = call_class_map(@, class_map_argument(Cur)),
       !.updated = class_map_argument(Cur),
       !.stack = <<[op |-> "to_bytes", called |-> FALSE]>>,
       !.steps = 0,
       !.phase = "encode"])

(***************************************************************************)
(* The class registries' forward lookup.  A Python class is its name and,  *)
(* for a fabricated type, its entry of types.                              *)
(***************************************************************************)
Builtin(name) == [name |-> name, cls |-> 0]
Fabricated(t) == [name |-> "opaque", cls |-> t]
NoKlass == [name |-> "None", cls |-> 0]

\* DefaultClassMap.get_python_class
DefaultClassMap_get_python_class(chain) ==
  IF chain[1] \in DOMAIN class_map.unarchive_class_map
  THEN Builtin(class_map.unarchive_class_map[chain[1]])
  ELSE NoKlass

\* OpaqueClassMap._make_class on what is left of the chain's iterator: the
\* types and the cache after the call, and the type returned (0 is
\* OpaqueObject).
RECURSIVE OpaqueClassMap_make_class(_, _, _)
OpaqueClassMap_make_class(ts, cache, chain) ==
  IF Len(chain) = 0 THEN [types |-> ts, cache |-> cache, cls |-> 0]
  ELSE LET objc_class == Head(chain) IN
       IF objc_class \in DOMAIN cache
       THEN [types |-> ts, cache |-> cache, cls |-> cache[objc_class]]
       ELSE LET base == OpaqueClassMap_make_class(ts, cache, Tail(chain))
                ts2 == Append(base.types, [name |-> objc_class, base |-> base.cls])
            IN [types |-> ts2, cache |-> (objc_class :> Len(ts2)) @@ base.cache,
                cls |-> Len(ts2)]

OpaqueClassMap_base_only(ts, cache, chain) ==
  [types |-> ts, cache |-> cache, klass |-> DefaultClassMap_get_python_class(chain)]

\* OpaqueClassMap.get_python_class over the DefaultClassMap.
OpaqueClassMap_get_python_class(ts, cache, chain) ==
  LET k == DefaultClassMap_get_python_class(chain) IN
  IF k # NoKlass THEN [types |-> ts, cache |-> cache, klass |-> k]
  ELSE LET r == OpaqueClassMap_make_class(ts, cache, chain) IN
       [types |-> r.types, cache |-> r.cache, klass |-> Fabricated(r.cls)]

\* self.class_map.get_python_class(classes) of the running call.
get_python_class(n, chain) ==
  IF n.opaque THEN OpaqueClassMap_get_python_class(n.types, n.opaque_cache, chain)
  ELSE [types |-> n.types, cache |-> n.opaque_cache,
        klass |-> DefaultClassMap_get_python_class(chain)]

(***************************************************************************)
(* Unarchive: the decoder.                                                 *)
(***************************************************************************)
\* CycleToken, as the object cached for a UID.
CycleToken == 0 - 1

\* A slot of the input table that no step has read yet.
Undet == [kind |-> "undet"]

InvalidClassList_unordered(classes, name) == Len(classes) = 0

\* if not classes or classes[0] != name:
InvalidClassList(classes, name) == Len(classes) = 0 \/ classes[1] # name

\* Unarchive.class_for_uid: the state after the call, the class, the error.
class_for_uid(n, index) ==
  LET fail(e) == [n |-> n, klass |-> NoKlass, err |-> e] IN
  IF index >= Len(n.dobjects) THEN fail("IndexError")
  ELSE LET meta == Slot(n.dobjects, index) IN
       IF ~IsRec(meta) THEN fail("MissingClassMetaData")
       ELSE IF ~(HasKey(meta, "$classname") /\ meta.d["$classname"].kind = "str")
       THEN fail("MissingClassName")
       ELSE IF ~(HasKey(meta, "$classes") /\ meta.d["$classes"].kind = "names")
       THEN fail("MissingClassList")
       ELSE LET name == meta.d["$classname"].s
                classes == meta.d["$classes"].names
            IN IF InvalidClassList(classes, name) THEN fail("InvalidClassList")
               ELSE LET r == get_python_class(n, classes) IN
                    IF r.klass = NoKlass THEN fail("MissingClassMapping")
                    ELSE [n |-> [n EXCEPT !.types = r.types, !.opaque_cache = r.cache],
                          klass |-> r.klass, err |-> "none"]

\* klass.__new__(klass): the placeholder, or CycleToken for a class that
\* cannot be initialized in two phases.
InPlace(klass) == klass.name # "timestamp_decoder"

Klass_new(klass) ==
  CASE klass.name = "Dict" -> DictObj("dict")
    [] klass.name = "MutableDict" -> DictObj("MutableDict")
    [] klass.name = "Array" -> Cont("list")
    [] klass.name = "MutableArray" -> Cont("MutableArray")
    [] klass.name = "Set" -> Cont("set")
    [] klass.name = "MutableSet" -> Cont("MutableSet")
    [] klass.name = "MutableData" -> Data("")
    [] OTHER -> [kind |-> "opaque", cls |-> klass.cls, attrs |-> <<>>, vals |-> <<>>]

\* The keys of a record in the order the plist holds them.
RECURSIVE KeySeq(_)
KeySeq(ks) ==
  IF ks = {} THEN <<>>
  ELSE LET k == CHOOSE x \in ks : TRUE IN <<k>> \o KeySeq(ks \ {k})

\* ArchivedObject.keys
ArchivedObject_keys(raw_obj) == KeySeq(DOMAIN raw_obj.d \ {"$class"})

\* The return of a call of decode_object to its caller; n.stack is the
\* caller's stack.
decode_return(n, index, val) ==
  LET during == \E k \in 1..Len(n.stack) :
                  n.stack[k].op \in {"Array", "Dict", "Opaque"} /\ n.stack[k].index = index
      old == IF index \in DOMAIN n.derefs THEN n.derefs[index]
             ELSE [objs |-> {}, n |-> 0, during |-> FALSE]
      m == IF index = 0 THEN n
           ELSE [n EXCEPT !.derefs =
                   (index :> [objs |-> old.objs \cup {val}, n |-> old.n + 1,
                              during |-> old.during \/ during]) @@ @]
      f == m.stack[Len(m.stack)]
      o == m.dheap[f.obj]
  IN
  CASE f.op = "Array" ->
         IF o.kind \in {"list", "MutableArray"}
         THEN \* self.append(...)
              [m EXCEPT !.dheap[f.obj].items = Append(@, val),
                        !.stack = SetTop(@, [f EXCEPT !.i = @ + 1])]
         ELSE \* self.add(...)
              IF ~Hashable(m.dheap, val) THEN Raise(m, "TypeError")
              ELSE IF \E j \in 1..Len(o.items) : PyEq(m.dheap, o.items[j], val)
              THEN [m EXCEPT !.stack = SetTop(@, [f EXCEPT !.i = @ + 1])]
              ELSE [m EXCEPT !.dheap[f.obj].items = Append(@, val),
                             !.stack = SetTop(@, [f EXCEPT !.i = @ + 1])]
    [] f.op = "Dict" ->
         IF ~f.have
         THEN [m EXCEPT !.stack = SetTop(@, [f EXCEPT !.have = TRUE, !.key = val])]
         ELSE \* self[key] = val
              IF ~Hashable(m.dheap, f.key) THEN Raise(m, "TypeError")
              ELSE LET at == {j \in 1..Len(o.keys) : PyEq(m.dheap, o.keys[j], f.key)}
                       done == SetTop(m.stack, [f EXCEPT !.have = FALSE, !.i = @ + 1])
                   IN IF at # {}
                      THEN [m EXCEPT !.dheap[f.obj].vals[CHOOSE j \in at : TRUE] = val,
                                     !.stack = done]
                      ELSE [m EXCEPT !.dheap[f.obj].keys = Append(@, f.key),
                                     !.dheap[f.obj].vals = Append(@, val),
                                     !.stack = done]
    [] f.op = "timestamp" ->
         [m EXCEPT !.stack = SetTop(@, [f EXCEPT !.have = TRUE, !.val = val])]
    [] f.op = "Opaque" ->
         \* self.__dict__[key] = archive.decode(key)
         [m EXCEPT !.dheap[f.obj].attrs = Append(@, f.keys[f.i]),
                   !.dheap[f.obj].vals = Append(@, val),
                   !.stack = SetTop(@, [f EXCEPT !.i = @ + 1])]
    [] OTHER -> \* top_object
         [m EXCEPT !.stack = SetTop(@, [f EXCEPT !.have = TRUE, !.val = val])]

Known(d, key, kind) == key \in DOMAIN d /\ d[key].kind = kind

replace_placeholder_skip(uu, index, new_obj) == uu

\* if obj is CycleToken: self.unpacked_uids[index] = new_obj
replace_placeholder(uu, index, new_obj) == (index :> new_obj) @@ uu

\* timestamp(unix2apple_epoch_delta + offset)
timestamp_of(h, offset) ==
  IF offset # None /\ h[offset].kind \in NumericKinds
  THEN [kind |-> "timestamp", v |-> h[offset].v, e |-> h[offset].e + 1]
  ELSE [kind |-> "TypeError"]

\* The call klass.decode_archive(obj, ArchivedObject(uid, raw_obj, self)) up
\* to its first call of decode_object; n.stack is the stack of the caller of
\* decode_object(index).
decode_archive(n, klass, index, obj, raw_obj) ==
  LET d == raw_obj.d
      m == [n EXCEPT !.populated =
              (index :> (IF index \in DOMAIN @ THEN @[index] ELSE 0) + 1) @@ @]
  IN
  CASE klass.name \in {"Array", "MutableArray", "Set", "MutableSet"} ->
         IF ~Known(d, "NS.objects", "uids") THEN Raise(m, "TypeError")
         ELSE [m EXCEPT !.stack = Append(@, [op |-> "Array", index |-> index, obj |-> obj,
                                            uids |-> d["NS.objects"].items, i |-> 1])]
    [] klass.name \in {"Dict", "MutableDict"} ->
         IF ~Known(d, "NS.keys", "uids") THEN Raise(m, "TypeError")
         ELSE [m EXCEPT !.stack = Append(@, [op |-> "Dict", index |-> index, obj |-> obj,
                                            key_uids |-> d["NS.keys"].items,
                                            val_uids |-> IF Known(d, "NS.objects", "uids")
                                                         THEN d["NS.objects"].items ELSE <<>>,
                                            novals |-> ~Known(d, "NS.objects", "uids"),
                                            i |-> 1, have |-> FALSE, key |-> None])]
    [] klass.name = "MutableData" ->
         \* self.extend(archive.decode('NS.data'))
         IF ~Known(d, "NS.data", "bytes") THEN Raise(m, "TypeError")
         ELSE decode_return([m EXCEPT !.dheap[obj].s = @ \o d["NS.data"].s], index, obj)
    [] klass.name = "timestamp_decoder" ->
         IF Known(d, "NS.time", "uid")
         THEN [m EXCEPT !.stack = Append(Append(@,
                   [op |-> "timestamp", index |-> index, obj |-> 0, have |-> FALSE,
                    val |-> None]),
                   [op |-> "decode_object", index |-> d["NS.time"].v])]
         ELSE IF "NS.time" \in DOMAIN d /\ d["NS.time"].kind \in NumericKinds
         THEN LET h == Append(m.dheap, [kind |-> "timestamp", v |-> d["NS.time"].v,
                                                 e |-> d["NS.time"].e + 1]) IN
              decode_return([m EXCEPT !.dheap = h,
                                      !.unpacked_uids = replace_placeholder(@, index, Len(h))],
                            index, Len(h))
         ELSE Raise(m, "TypeError")
    [] OTHER ->
         [m EXCEPT !.stack = Append(@, [op |-> "Opaque", index |-> index, obj |-> obj,
                                        keys |-> ArchivedObject_keys(raw_obj), i |-> 1])]

Cached_never(uu, index) == FALSE

\* obj = self.unpacked_uids.get(index); if obj is not None:
Cached(uu, index) == index \in DOMAIN uu

cache_placeholder_late(uu, index, obj) == uu

\* self.unpacked_uids[index] = obj, before the delegate populates obj
cache_placeholder(uu, index, obj) == (index :> obj) @@ uu

\* Unarchive.decode_object up to the call of the delegate's decode_archive.
decode_object_step(n, index) ==
  LET popped == [n EXCEPT !.stack = Pop(@)] IN
  IF index = 0 THEN decode_return(popped, index, None)
  ELSE IF Cached(n.unpacked_uids, index) /\ n.unpacked_uids[index] = CycleToken
  THEN Raise(n, "CircularReference")
  ELSE IF Cached(n.unpacked_uids, index)
  THEN decode_return(popped, index, n.unpacked_uids[index])
  ELSE IF index >= Len(n.dobjects) THEN Raise(n, "IndexError")
  ELSE LET raw_obj == Slot(n.dobjects, index) IN
       IF ~IsRec(raw_obj)
       THEN \* return raw_obj
            IF index \in DOMAIN n.raw_ref
            THEN decode_return(popped, index, n.raw_ref[index])
            ELSE LET h == Append(n.dheap, raw_obj) IN
                 decode_return([popped EXCEPT !.dheap = h,
                                              !.raw_ref = (index :> Len(h)) @@ @],
                               index, Len(h))
       ELSE IF ~Known(raw_obj.d, "$class", "uid") THEN Raise(n, "MissingClassUID")
       ELSE LET c == class_for_uid(popped, raw_obj.d["$class"].v) IN
            IF c.err # "none" THEN Raise(c.n, c.err)
            ELSE IF InPlace(c.klass)
            THEN LET h == Append(c.n.dheap, Klass_new(c.klass)) IN
                 decode_archive([c.n EXCEPT !.dheap = h,
                                            !.unpacked_uids = cache_placeholder(@, index, Len(h))],
                                c.klass, index, Len(h), raw_obj)
            ELSE decode_archive([c.n EXCEPT !.unpacked_uids =
                                              cache_placeholder(@, index, CycleToken)],
                                c.klass, index, CycleToken, raw_obj)

(***************************************************************************)
(* A table handed to loads that dumps did not produce.  The decoder only   *)
(* reads it, so a data slot is chosen, within the bounds, when the decoder *)
(* first fetches it.  UIDs 1..MaxObjs are the data slots, the class        *)
(* metadata follows them.  A reference of a chosen record is 0, a slot     *)
(* some record or the envelope already references, or the lowest slot none *)
(* references yet (code -1).                                               *)
(***************************************************************************)
ClassChains ==
  << <<"NSArray", "NSObject">>, <<"NSDictionary", "NSObject">>, <<"NSDate", "NSObject">>,
     <<"NSMutableData", "NSData", "NSObject">>, <<"Foo", "NSObject">>,
     <<"Bar", "Foo", "NSObject">>, <<"Baz", "Foo", "Base", "NSObject">> >>

ClassUID(k) == MaxObjs + k

MetaOf(chain) == Rec(("$classes" :> Names(chain)) @@ ("$classname" :> PStr(chain[1])))

\* Class metadata whose class list is empty, or does not begin with the
\* class name.
BadMetas ==
  << Rec(("$classes" :> Names(<<>>)) @@ ("$classname" :> PStr("Foo"))),
     Rec(("$classes" :> Names(<<"NSObject", "Foo">>)) @@ ("$classname" :> PStr("Foo"))) >>

InputTable ==
  <<NullSlot>> \o [i \in 1..MaxObjs |-> Undet]
               \o [k \in 1..Len(ClassChains) |-> MetaOf(ClassChains[k])]
               \o BadMetas

\* The UIDs a field of a record holds.
FieldRefs(f) ==
  IF f.kind = "uid" THEN {f.v} ELSE IF f.kind = "uids" THEN {f.items[i] : i \in 1..Len(f.items)}
  ELSE {}

FieldRefCount(f) == IF f.kind = "uid" THEN 1 ELSE IF f.kind = "uids" THEN Len(f.items) ELSE 0

DataSlots(objs) == {i \in 1..MaxObjs : IsRec(Slot(objs, i))}

RecRefs(rec) == UNION { FieldRefs(rec.d[k]) : k \in DOMAIN rec.d \ {"$class"} }

Referenced(objs) == {1} \cup UNION { RecRefs(Slot(objs, i)) : i \in DataSlots(objs) }

RECURSIVE SumOver(_, _)
SumOver(f, S) ==
  IF S = {} THEN 0 ELSE LET x == CHOOSE y \in S : TRUE IN f[x] + SumOver(f, S \ {x})

RecRefCount(rec) ==
  SumOver([k \in DOMAIN rec.d \ {"$class"} |-> FieldRefCount(rec.d[k])],
          DOMAIN rec.d \ {"$class"})

TableRefsLeft(objs) ==
  LET used == SumOver([i \in DataSlots(objs) |-> RecRefCount(Slot(objs, i))], DataSlots(objs))
  IN IF used > MaxRefs THEN 0 ELSE MaxRefs - used

\* The references a sequence of codes stands for; <<0 - 1>> if it names a
\* slot beyond the data slots.
RECURSIVE ResolveRefs(_, _)
ResolveRefs(codes, seen) ==
  IF Len(codes) = 0 THEN <<>>
  ELSE LET c == Head(codes)
           unseen == (1..MaxObjs) \ seen
           r == IF c >= 0 THEN c
                ELSE IF unseen = {} THEN 0 - 1
                ELSE CHOOSE u \in unseen : \A w \in unseen : u <= w
       IN <<r>> \o ResolveRefs(Tail(codes), seen \cup {r})

RefSeqs(objs, len) ==
  LET seen == Referenced(objs)
      cand == [1..len -> {0 - 1, 0} \cup seen]
  IN { ResolveRefs(c, seen) : c \in {c \in cand :
         \A i \in 1..len : ResolveRefs(c, seen)[i] >= 0} }

WithClass(k, d) == Rec(("$class" :> U(ClassUID(k))) @@ d)

\* The records and primitive values slot index can hold.
SlotChoices(objs) ==
  LET left == TableRefsLeft(objs)
      one == IF left > 0 THEN RefSeqs(objs, 1) ELSE {}
  IN {PStr("a"), PInt(1)}
     \cup { WithClass(1, "NS.objects" :> UidList(r)) :
              r \in UNION { RefSeqs(objs, n) : n \in 0..left } }
     \cup { WithClass(2, ("NS.keys" :> UidList(Odd(r))) @@ ("NS.objects" :> UidList(Even(r)))) :
              r \in UNION { RefSeqs(objs, 2 * n) : n \in 0..(left \div 2) } }
     \cup { WithClass(3, "NS.time" :> PFloat(0)) }
     \cup { WithClass(3, "NS.time" :> [kind |-> "float", v |-> 0, e |-> 0 - 1]) }
     \cup { WithClass(3, "NS.time" :> U(r[1])) : r \in one }
     \cup { WithClass(4, "NS.data" :> PBytes("x")) }
     \cup { WithClass(k, EmptyDict) : k \in {5, 6, 7} }
     \cup { WithClass(5, "x" :> PInt(1)) }
     \cup { WithClass(k, "y" :> U(r[1])) : k \in {5, 6}, r \in one }
     \cup { WithClass(5, ("x" :> PInt(1)) @@ ("y" :> U(r[1]))) : r \in one }
     \cup { WithClass(Len(ClassChains) + k, EmptyDict) : k \in 1..Len(BadMetas) }
     \cup { Rec(EmptyDict), Rec("$class" :> PInt(1)) }

\* The tables in which the slot decode_object is about to fetch is chosen.
Determinations(objs, index) ==
  IF index >= 1 /\ index < Len(objs) /\ Slot(objs, index).kind = "undet"
  THEN { SetSlot(objs, index, c) : c \in SlotChoices(objs) }
  ELSE {objs}

Unarchive_decode_object ==
  /\ phase = "decode" /\ stack # <<>> /\ Top.op = "decode_object"
  /\ \E objs \in Determinations(dobjects, Top.index) :
       Apply(decode_object_step([Cur EXCEPT !.dobjects = objs], Top.index))

\* One iteration of the loop of Array.decode_archive or Set.decode_archive,
\* or its return, after which decode_object returns the placeholder.
Array_decode_archive ==
  /\ phase = "decode" /\ stack # <<>> /\ Top.op = "Array"
  /\ Apply(
       IF Top.i <= Len(Top.uids)
       THEN [Cur EXCEPT !.stack = Append(@, [op |-> "decode_object",
                                            index |-> Top.uids[Top.i]])]
       ELSE decode_return([Cur EXCEPT !.stack = Pop(@)], Top.index, Top.obj))

\* One call of decode_object of the loop of Dict.decode_archive, or its return.
Dict_decode_archive ==
  /\ phase = "decode" /\ stack # <<>> /\ Top.op = "Dict"
  /\ Apply(
       IF Top.i > Len(Top.key_uids)
       THEN decode_return([Cur EXCEPT !.stack = Pop(@)], Top.index, Top.obj)
       ELSE IF ~Top.have
       THEN [Cur EXCEPT !.stack = Append(@, [op |-> "decode_object",
                                            index |-> Top.key_uids[Top.i]])]
       ELSE IF Top.novals THEN Raise(Cur, "TypeError")
       ELSE IF Top.i > Len(Top.val_uids) THEN Raise(Cur, "IndexError")
       ELSE [Cur EXCEPT !.stack = Append(@, [op |-> "decode_object",
                                            index |-> Top.val_uids[Top.i]])])

\* timestamp_decoder.decode_archive after archive.decode('NS.time') has
\* dereferenced a UID, and the replacement of the token by the value.
timestamp_decoder_decode_archive ==
  /\ phase = "decode" /\ stack # <<>> /\ Top.op = "timestamp" /\ Top.have
  /\ Apply(
       LET t == timestamp_of(dheap, Top.val)
           h == Append(dheap, t)
       IN IF t.kind = "TypeError" THEN Raise(Cur, "TypeError")
          ELSE decode_return([Cur EXCEPT !.stack = Pop(@), !.dheap = h,
                                         !.unpacked_uids =
                                           replace_placeholder(@, Top.index, Len(h))],
                             Top.index, Len(h)))

\* One iteration of the loop of OpaqueObject.decode_archive, or its return.
OpaqueObject_decode_archive ==
  /\ phase = "decode" /\ stack # <<>> /\ Top.op = "Opaque"
  /\ Apply(
       IF Top.i > Len(Top.keys)
       THEN decode_return([Cur EXCEPT !.stack = Pop(@)], Top.index, Top.obj)
       ELSE LET val == Slot(dobjects, Top.index).d[Top.keys[Top.i]] IN
            IF val.kind = "uid"
            THEN [Cur EXCEPT !.stack = Append(@, [op |-> "decode_object", index |-> val.v])]
            ELSE \* decode_key returns the value the record holds
                 LET h == Append(dheap, val) IN
                 [Cur EXCEPT !.dheap = [h EXCEPT ![Top.obj].attrs = Append(@, Top.keys[Top.i]),
                                                 ![Top.obj].vals = Append(@, Len(h))],
                             !.stack = SetTop(@, [Top EXCEPT !.i = @ + 1])])

unpack_archive_header_unchecked(n, plist) ==
  [n EXCEPT !.top_uid = plist.root, !.dobjects = plist.objects]

\* Unarchive.unpack_archive_header
unpack_archive_header(n, plist) ==
  IF plist.archiver # "NSKeyedArchiver" THEN Raise(n, "UnsupportedArchiver")
  ELSE IF plist.version # NSKeyedArchiveVersion THEN Raise(n, "UnsupportedArchiveVersion")
  ELSE IF plist.top # "dict" THEN Raise(n, "MissingTopObject")
  ELSE LET m == [n EXCEPT !.top_uid = plist.root] IN
       IF plist.rootkind # "uid" THEN Raise(m, "MissingTopObjectUID")
       ELSE IF plist.objkind # "list" THEN Raise(m, "MissingObjectsArray")
       ELSE [m EXCEPT !.dobjects = plist.objects]

\* Unarchive.top_object: the header, the call of decode_object, the return
\* of loads.
Unarchive_top_object ==
  /\ phase = "decode" /\ stack # <<>> /\ Top.op = "top_object"
  /\ Apply(
       IF ~Top.have
       THEN LET m == unpack_archive_header(Cur, archive) IN
            IF m.err # "none" THEN m
            ELSE [m EXCEPT !.stack = Append(@, [op |-> "decode_object",
                                                index |-> m.top_uid])]
       ELSE Finish([Cur EXCEPT !.result = Top.val]))

\* loads: Unarchive(plist), the class map, top_object.
loads ==
  /\ phase = "loads"
  /\ Apply([Cur EXCEPT
       !.unpacked_uids = EmptyDict,
       !.top_uid = null_uid,
       !.dobjects = <<>>,
       !.opaque_cache = EmptyDict,
       !.class_map = call_class_map(@, class_map_argument(Cur)),
       !.updated = class_map_argument(Cur),
       !.stack = <<[op |-> "top_object", obj |-> 0, have |-> FALSE, val |-> None]>>,
       !.steps = 0,
       !.phase = "decode"])

NoCall == [obj |-> 0, ret |-> 0, hit |-> FALSE]
NoArchive == Envelope("", 0, "NoneType", "NoneType", 0, "NoneType", <<>>)

\* The state before the first call, but for the caller's input.
Fresh ==
  /\ err = "none"
  /\ expanded = {}
  /\ objects = <<>>
  /\ owner = <<>>
  /\ ref_cache = EmptyDict
  /\ class_cache = EmptyDict
  /\ stack = <<>>
  /\ lastcall = NoCall
  /\ types = <<>>
  /\ opaque_cache = EmptyDict
  /\ dobjects = <<>>
  /\ top_uid = null_uid
  /\ unpacked_uids = EmptyDict
  /\ dheap = <<>>
  /\ raw_ref = EmptyDict
  /\ result = None
  /\ populated = EmptyDict
  /\ derefs = EmptyDict
  /\ class_map = DefaultClassMap_init
  /\ updated = <<>>
  /\ steps = 0

\* loads(dumps(x)) for a graph x.
Init ==
  /\ phase = "dumps"
  /\ todo = <<"loads">>
  /\ opaque \in BOOLEAN
  /\ \E k \in 0..Len(Templates) :
       /\ heap = IF k = 0 THEN <<>> ELSE <<Templates[k]>>
       /\ root = IF k = 0 THEN None ELSE 1
  /\ archive = NoArchive
  /\ class_maps = <<>>
  /\ Fresh

Next ==
  \/ dumps
  \/ Archive_to_bytes
  \/ Archive_archive
  \/ Archive_encode_top_level
  \/ Archive_encode_list
  \/ Archive_encode_dict
  \/ loads
  \/ Unarchive_top_object
  \/ Unarchive_decode_object
  \/ Array_decode_archive
  \/ Dict_decode_archive

Spec == Init /\ [][Next]_vars

\* The envelopes handed to loads: the well-formed one and those with one or
\* more defective fields.
Envelopes ==
  { Envelope(a, v, t, rk, 1, ok, IF ok = "list" THEN InputTable ELSE <<>>) :
      a \in {"NSKeyedArchiver", "NSArchiver"},
      v \in {NSKeyedArchiveVersion, NSKeyedArchiveVersion - 1},
      t \in {"dict", "NoneType"},
      rk \in {"uid", "int", "NoneType"},
      ok \in {"list", "NoneType"} }

\* dumps(loads(t)) for a table t.
InitDec ==
  /\ phase = "loads"
  /\ todo = <<"dumps_result">>
  /\ opaque \in BOOLEAN
  /\ heap = <<>>
  /\ root = None
  /\ archive \in {e \in Envelopes : e.top # "dict" => e.rootkind = "NoneType"}
  /\ class_maps = <<>>
  /\ Fresh

NextDec ==
  \/ Next
  \/ timestamp_decoder_decode_archive
  \/ OpaqueObject_decode_archive
  \/ OpaqueObject_encode_archive

SpecDec == InitDec /\ [][NextDec]_vars

(***************************************************************************)
(* The registry under the updates a caller makes before a call.            *)
(***************************************************************************)
WireNames == {"NSDate", "Foo", "Bar"}
CallerTypes == {"timestamp", "MyDate", "MyObject"}

\* The mappings a caller passes: up to MaxBindings bindings of distinct names.
NewMaps ==
  { m \in UNION { [1..n -> WireNames \X CallerTypes] : n \in 1..MaxBindings } :
      \A i, j \in 1..Len(m) : i # j => m[i][1] # m[j][1] }

update ==
  /\ phase = "registry"
  /\ \E new_map \in NewMaps :
       /\ class_map' = DefaultClassMap_update(class_map, new_map)
       /\ updated' = new_map
  /\ UNCHANGED <<phase, opaque, err, heap, expanded, root, objects, owner,
                 ref_cache, class_cache, stack, lastcall, archive, types, opaque_cache,
                 todo, dobjects, top_uid, unpacked_uids, dheap, raw_ref, result,
                 populated, derefs, steps, class_maps>>

InitMap ==
  /\ phase = "registry"
  /\ todo = <<>>
  /\ opaque = FALSE
  /\ heap = <<>>
  /\ root = None
  /\ archive = NoArchive
  /\ class_maps = <<>>
  /\ Fresh

NextMap == update

SpecMap == InitMap /\ [][NextMap]_vars

(***************************************************************************)
(* Calls one after the other: dumps with a mapping or without, then loads  *)
(* and dumps of what loads returned, both without a mapping.               *)
(***************************************************************************)
\* The mappings the first call passes.
CallMaps == {<<>>, << <<"NSDate", "MyDate">> >>}

InitIso ==
  /\ phase = "dumps"
  /\ todo = <<"loads", "dumps_result">>
  /\ opaque = FALSE
  /\ \E k \in 1..Len(Templates) :
       /\ heap = <<Templates[k]>>
       /\ root = 1
  /\ archive = NoArchive
  /\ \E m \in CallMaps : class_maps = <<m, <<>>, <<>>>>
  /\ Fresh

SpecIso == InitIso /\ [][Next]_vars

(***************************************************************************)
(* Structural equality of a graph of heap and a graph of dheap: the same   *)
(* types and payloads, lists by position, sets and dicts by contents,      *)
(* compared to the depth at which two graphs of the bounded size differ    *)
(* if they differ at all.                                                  *)
(***************************************************************************)
RECURSIVE Same(_, _, _)
Same(a, b, fuel) ==
  IF a = None \/ b = None THEN a = b
  ELSE LET x == heap[a]
           y == dheap[b]
       IN /\ x.kind = y.kind
          /\ CASE x.kind \in {"str", "bytes", "MutableData"} -> x.s = y.s
               [] x.kind \in NumericKinds -> NumEq(x, y)
               [] x.kind \in {"list", "MutableArray"} ->
                    /\ Len(x.items) = Len(y.items)
                    /\ fuel = 0 \/ \A i \in 1..Len(x.items) :
                                     Same(x.items[i], y.items[i], fuel - 1)
               [] x.kind \in {"set", "MutableSet"} ->
                    /\ Len(x.items) = Len(y.items)
                    /\ fuel = 0 \/ \A i \in 1..Len(x.items) : \E j \in 1..Len(y.items) :
                                     Same(x.items[i], y.items[j], fuel - 1)
               [] x.kind \in DictKinds ->
                    /\ Len(x.keys) = Len(y.keys)
                    /\ fuel = 0 \/ \A i \in 1..Len(x.keys) : \E j \in 1..Len(y.keys) :
                                     /\ Same(x.keys[i], y.keys[j], fuel - 1)
                                     /\ Same(x.vals[i], y.vals[j], fuel - 1)
               [] OTHER -> FALSE

EqDepth == 2 * MaxObjs

SupportedKinds == PrimitiveKinds \cup {"list", "set", "dict", "timestamp"}
Supported == \A i \in 1..Len(heap) : heap[i].kind \in SupportedKinds

Over == phase \in {"done", "failed"}
RoundTripped == phase = "done" /\ err = "none" /\ Same(root, result, EqDepth)

\* C1: for every graph x of supported types, loads(dumps(x)) completes
\* without error and yields a value structurally equal to x.
C1_RoundTrip == (Over /\ Supported) => RoundTripped

(***************************************************************************)
(* The encoder's table.                                                    *)
(***************************************************************************)
IsMeta(slot) == IsRec(slot) /\ HasKey(slot, "$classname")
UIDs == 0..(Len(objects) - 1)
OnStack(obj) == \E k \in 1..Len(stack) : "obj" \in DOMAIN stack[k] /\ stack[k].obj = obj

\* C2: while encoding, the table holds at most one entry per object
\* identity, every slot is the entry of one cached identity or one cached
\* class name, and every return of archive for an identity, a repeated one
\* included, is the UID assigned to it the first time.
C2_IdentityDedup ==
  phase = "encode" =>
    /\ \A i, j \in UIDs : (i # j /\ owner[i + 1] # 0) => owner[i + 1] # owner[j + 1]
    /\ \A o \in DOMAIN ref_cache : ref_cache[o] \in UIDs /\ owner[ref_cache[o] + 1] = o
    /\ Len(objects) = 1 + Cardinality(DOMAIN ref_cache) + Cardinality(DOMAIN class_cache)
    /\ lastcall.obj # None =>
         /\ lastcall.obj \in DOMAIN ref_cache
         /\ lastcall.ret = ref_cache[lastcall.obj]

\* archive has returned the cached UID of a container that is still being archived
C2_Witness ==
  /\ phase = "encode" /\ lastcall.hit
  /\ heap[lastcall.obj].kind \in {"list", "dict"}
  /\ OnStack(lastcall.obj)

\* C3: a dict that holds itself as a value is encoded without error, and
\* loads returns a dict whose entry under that key is the returned dict itself.
SelfDict ==
  /\ root # None /\ heap[root].kind = "dict"
  /\ \E i \in 1..Len(heap[root].vals) : heap[root].vals[i] = root

C3_CycleSupport ==
  (Over /\ Supported /\ SelfDict) =>
    /\ phase = "done" /\ err = "none" /\ result # None
    /\ dheap[result].kind = "dict"
    /\ \A i \in 1..Len(heap[root].vals) :
         heap[root].vals[i] = root =>
           \E j \in 1..Len(dheap[result].vals) :
             /\ Same(heap[root].keys[i], dheap[result].keys[j], EqDepth)
             /\ dheap[result].vals[j] = result

C3_Witness ==
  /\ phase = "done" /\ SelfDict /\ result # None
  /\ \E j \in 1..Len(dheap[result].vals) : dheap[result].vals[j] = result

\* C6: in every archive the encoder produces, top.root is UID 1 and slot 1
\* of the table exists and holds the encoding of the root value.
C6_RootPlacement ==
  archive # NoArchive =>
    /\ archive.root = 1
    /\ Len(archive.objects) > 1
    /\ root # None => owner[2] = root

\* C7: while encoding, the table holds at most one class-metadata record
\* per leading class name, and the class key of every record holds the UID
\* of the metadata record of its object's class.
C7_ClassDedup ==
  phase = "encode" =>
    /\ \A i, j \in UIDs :
         (i # j /\ IsMeta(Slot(objects, i)) /\ IsMeta(Slot(objects, j))) =>
           Slot(objects, i).d["$classname"] # Slot(objects, j).d["$classname"]
    /\ \A i \in UIDs :
         (owner[i + 1] # 0 /\ IsRec(Slot(objects, i)) /\ HasKey(Slot(objects, i), "$class")) =>
           LET c == Slot(objects, i).d["$class"].v IN
           /\ c \in UIDs /\ IsMeta(Slot(objects, c))
           /\ Slot(objects, c).d["$classname"].s = get_objc_class(types, heap[owner[i + 1]])[1]
           /\ Slot(objects, c).d["$classes"].names = get_objc_class(types, heap[owner[i + 1]])

\* two distinct lists share one NSArray metadata record
C7_Witness ==
  /\ phase = "encode"
  /\ \E i, j \in UIDs :
       /\ i # j /\ owner[i + 1] # 0 /\ owner[j + 1] # 0
       /\ heap[owner[i + 1]].kind = "list" /\ heap[owner[j + 1]].kind = "list"
       /\ HasKey(Slot(objects, i), "$class") /\ HasKey(Slot(objects, j), "$class")
       /\ Slot(objects, i).d["$class"] = Slot(objects, j).d["$class"]

\* C8: every type the default registry maps for encoding through a delegate
\* (the byte buffer, the mutable containers, the timestamp) is encoded, and
\* decoding the encoded record gives back an equal value.
C8_DelegatesSymmetric ==
  (Over /\ root # None /\
   heap[root].kind \in {"MutableData", "MutableDict", "MutableArray", "MutableSet", "timestamp"})
    => RoundTripped

(***************************************************************************)
(* The decoder's table.                                                    *)
(***************************************************************************)
InTable(objs, i) == i >= 0 /\ i < Len(objs)

\* The class chain the class key of record i names; <<>> if it names none.
ChainOf(objs, i) ==
  IF InTable(objs, i) /\ IsRec(Slot(objs, i)) /\ Known(Slot(objs, i).d, "$class", "uid")
  THEN LET c == Slot(objs, i).d["$class"].v IN
       IF InTable(objs, c) /\ IsRec(Slot(objs, c)) /\ Known(Slot(objs, c).d, "$classes", "names")
       THEN Slot(objs, c).d["$classes"].names ELSE <<>>
  ELSE <<>>

LeadingName(objs, i) == IF ChainOf(objs, i) = <<>> THEN "" ELSE ChainOf(objs, i)[1]

ContainerNames ==
  {"NSArray", "NSMutableArray", "NSSet", "NSMutableSet", "NSDictionary", "NSMutableDictionary"}

\* UID to is UID from, or a record that from reaches through container records.
RECURSIVE Reaches(_, _, _, _)
Reaches(objs, from, to, fuel) ==
  \/ from = to
  \/ /\ fuel > 0
     /\ LeadingName(objs, from) \in ContainerNames
     /\ \E r \in RecRefs(Slot(objs, from)) : Reaches(objs, r, to, fuel - 1)

TimestampCycle(objs) ==
  \E t \in 1..(Len(objs) - 1) :
    /\ LeadingName(objs, t) = "NSDate"
    /\ Known(Slot(objs, t).d, "NS.time", "uid")
    /\ Reaches(objs, Slot(objs, t).d["NS.time"].v, t, MaxObjs)

LoadsOver == phase \notin {"loads", "decode"}

\* Every record the decoder has fetched is a container or a timestamp.
ContainersAndDates(objs) ==
  \A i \in DataSlots(objs) : LeadingName(objs, i) \in ContainerNames \cup {"NSDate"}

\* C4: loads of a table in which the time field of a timestamp record
\* references the record's own UID, directly or through container records,
\* ends in CircularReference and returns no value.
C4_CycleRejection ==
  (TimestampCycle(dobjects) /\ ContainersAndDates(dobjects) /\ LoadsOver)
    => (err = "CircularReference" /\ result = None)

\* C5: in one call of loads the delegate's decode_archive runs at most once
\* per UID, and every return of decode_object for a UID, while its record is
\* being populated or later, is one and the same object.
C5_NoDoubleMaterialization ==
  /\ \A u \in DOMAIN populated : populated[u] <= 1
  /\ \A u \in DOMAIN derefs : Cardinality(derefs[u].objs) = 1

\* a record populated once whose UID was dereferenced during its population and again
C5_Witness ==
  \E u \in DOMAIN derefs :
    /\ u \in DOMAIN populated /\ populated[u] = 1
    /\ derefs[u].during /\ derefs[u].n >= 2

\* C9: with the opaque fallback enabled, loads never fails with
\* MissingClassMapping, whatever class names the well-formed metadata
\* records of the table hold and whatever chains were resolved before.
C9_OpaqueNeverMissing ==
  (opaque /\ result = None) => err # "MissingClassMapping"

\* two records of unknown classes decoded, the chain of one a tail of the other's
C9_Witness ==
  /\ opaque /\ LoadsOver /\ err = "none"
  /\ \E a, b \in 1..Len(dheap) :
       /\ dheap[a].kind = "opaque" /\ dheap[b].kind = "opaque"
       /\ OpaqueClassMap_get_class_chain(types, dheap[a].cls) = <<"Foo", "NSObject">>
       /\ OpaqueClassMap_get_class_chain(types, dheap[b].cls) = <<"Bar", "Foo", "NSObject">>

\* The root record of the table is of a class the base registry does not
\* know, and loads with the opaque fallback has returned its value.
OpaqueRootDecoded ==
  /\ opaque /\ result # None
  /\ LeadingName(dobjects, 1) # ""
  /\ LeadingName(dobjects, 1) \notin DOMAIN unarchive_class_map

\* C10: the value loads returns for a record of unknown class exposes every
\* key of the record but the class key, and dumps of that value, the opaque
\* fallback enabled, ends with a record of the same keys whose class
\* metadata holds the same chain.
C10_OpaqueRoundTrip ==
  OpaqueRootDecoded =>
    /\ dheap[result].kind = "opaque"
    /\ {dheap[result].attrs[i] : i \in 1..Len(dheap[result].attrs)}
         = DOMAIN Slot(dobjects, 1).d \ {"$class"}
    /\ phase \in {"done", "failed"} =>
         /\ phase = "done"
         /\ Len(objects) > 1 /\ owner[2] = result
         /\ DOMAIN Slot(objects, 1).d = DOMAIN Slot(dobjects, 1).d
         /\ ChainOf(objects, 1) = ChainOf(dobjects, 1)

(***************************************************************************)
(* The envelope.                                                           *)
(***************************************************************************)
\* The error of the first defective field of an envelope, "none" if it has none.
EnvelopeError(plist) ==
  CASE plist.archiver # "NSKeyedArchiver" -> "UnsupportedArchiver"
    [] plist.archiver = "NSKeyedArchiver" /\ plist.version # 100000 ->
         "UnsupportedArchiveVersion"
    [] plist.archiver = "NSKeyedArchiver" /\ plist.version = 100000 /\ plist.top # "dict" ->
         "MissingTopObject"
    [] plist.archiver = "NSKeyedArchiver" /\ plist.version = 100000 /\ plist.top = "dict"
       /\ plist.rootkind # "uid" -> "MissingTopObjectUID"
    [] plist.archiver = "NSKeyedArchiver" /\ plist.version = 100000 /\ plist.top = "dict"
       /\ plist.rootkind = "uid" /\ plist.objkind # "list" -> "MissingObjectsArray"
    [] OTHER -> "none"

\* top_object has called unpack_archive_header.
HeaderRead ==
  /\ phase # "loads"
  /\ ~(phase = "decode" /\ Len(stack) = 1 /\ Top.op = "top_object" /\ ~Top.have)

\* C11: loads of an archive whose archiver is not NSKeyedArchiver, whose
\* version is not 100000, or whose top, top.root or objects is missing or of
\* the wrong type ends in the error of that field, with the UID cache empty,
\* no delegate invoked and no object created.
C11_EnvelopeValidation ==
  (EnvelopeError(archive) # "none" /\ HeaderRead) =>
    /\ phase = "failed" /\ err = EnvelopeError(archive)
    /\ unpacked_uids = EmptyDict /\ populated = EmptyDict
    /\ dheap = <<>> /\ result = None

\* version 99999 under the right archiver has been refused
C11_Witness ==
  /\ archive.archiver = "NSKeyedArchiver" /\ archive.version = 99999
  /\ phase = "failed" /\ err = "UnsupportedArchiveVersion"

(***************************************************************************)
(* Types without a mapping.                                                *)
(***************************************************************************)
\* The encoder has taken up obj and its encode_top_level has dispatched on it.
Dispatched(obj) ==
  /\ obj \in DOMAIN ref_cache
  /\ ~(stack # <<>> /\ Top.op = "encode_top_level" /\ Top.obj = obj)

\* The type of o is not exactly list, dict or set and the reverse lookup of
\* the registry of the call returns nothing for it.
Unmapped(o) ==
  /\ o.kind \notin {"list", "dict", "set"}
  /\ o.kind \notin DOMAIN archive_class_map
  /\ ~(opaque /\ o.kind = "opaque")

NoBytes == phase = "failed" /\ err = "MissingClassMapping" /\ archive = NoArchive

\* C12, as stated: encoding any value whose type is not exactly list, dict
\* or set and has no reverse mapping fails with MissingClassMapping, and no
\* archive is produced.
C12_AnyUnmappedValue ==
  \A obj \in DOMAIN ref_cache :
    (Unmapped(heap[obj]) /\ Dispatched(obj)) => NoBytes

\* C12, amended: encoding a value that is not of a primitive type, whose
\* type is not exactly list, dict or set and has no reverse mapping, fails
\* with MissingClassMapping, and no archive is produced.
C12_UnmappedType ==
  \A obj \in DOMAIN ref_cache :
    (Unmapped(heap[obj]) /\ heap[obj].kind \notin PrimitiveKinds /\ Dispatched(obj))
      => NoBytes

\* an unmapped instance met as an element, after other slots were written
C12_Witness ==
  /\ NoBytes /\ Len(objects) > 2
  /\ \E obj \in DOMAIN ref_cache : heap[obj].kind = "object" /\ obj # root

\* C13: with the opaque fallback enabled, neither loads nor dumps ends in
\* MissingClassMapping.
C13_OpaqueAvoidsMappingErrors == opaque => err # "MissingClassMapping"

(***************************************************************************)
(* The registry.                                                           *)
(***************************************************************************)
\* C14: after an update that binds wire name n to type T, the forward lookup
\* of a chain led by n returns T, the reverse lookup of T returns a chain
\* led by n, and no other type reverse-maps to a chain led by n; after any
\* sequence of updates.
C14_OverrideConsistency ==
  \A i \in 1..Len(updated) :
    LET n == updated[i][1]
        T == updated[i][2]
    IN /\ DefaultClassMap_get_python_class(<<n, "NSObject">>).name = T
       /\ DefaultClassMap_get_objc_class(T) # <<>>
       /\ DefaultClassMap_get_objc_class(T)[1] = n
       /\ \A T2 \in DOMAIN class_map.archive_class_map \ {T} :
            DefaultClassMap_get_objc_class(T2)[1] # n

(***************************************************************************)
(* Records whose class cannot be resolved.                                 *)
(***************************************************************************)
\* The class key of record index is absent or not a UID.
NoClassUID(objs, index) ==
  /\ InTable(objs, index) /\ IsRec(Slot(objs, index))
  /\ ~Known(Slot(objs, index).d, "$class", "uid")

\* The class key of record index names metadata that has a class name and
\* a class list, and the list is empty or does not begin with the name.
BadClassList(objs, index) ==
  /\ InTable(objs, index) /\ IsRec(Slot(objs, index))
  /\ Known(Slot(objs, index).d, "$class", "uid")
  /\ LET c == Slot(objs, index).d["$class"].v IN
     /\ InTable(objs, c) /\ IsRec(Slot(objs, c))
     /\ Known(Slot(objs, c).d, "$classname", "str")
     /\ Known(Slot(objs, c).d, "$classes", "names")
     /\ LET classes == Slot(objs, c).d["$classes"].names IN
        Len(classes) = 0 \/ classes[1] # Slot(objs, c).d["$classname"].s

\* decode_object is about to run for a UID greater than 0.
Dereferencing == phase = "decode" /\ stack # <<>> /\ Top.op = "decode_object" /\ Top.index > 0

\* C15: decode_object of a record whose class metadata has an empty class
\* list, or one whose first entry is not the class name, fails with
\* InvalidClassList, and of a record whose class key is absent or not a UID
\* with MissingClassUID; no placeholder is ever cached and no delegate is
\* ever invoked for such a record.
C15_UnresolvableClass ==
  /\ [](\A index \in DOMAIN unpacked_uids \cup DOMAIN populated :
          ~NoClassUID(dobjects, index) /\ ~BadClassList(dobjects, index))
  /\ [][(Dereferencing /\ BadClassList(dobjects', Top.index))
          => (err' = "InvalidClassList" /\ UNCHANGED <<unpacked_uids, populated, dheap>>)]_vars
  /\ [][(Dereferencing /\ NoClassUID(dobjects', Top.index))
          => (err' = "MissingClassUID" /\ UNCHANGED <<unpacked_uids, populated, dheap>>)]_vars

C15_Witness ==
  /\ err = "InvalidClassList"
  /\ \E index \in DataSlots(dobjects) :
       /\ BadClassList(dobjects, index)
       /\ LeadingName(dobjects, index) = "NSObject"
       /\ index \notin DOMAIN unpacked_uids \cup DOMAIN populated
  /\ unpacked_uids # EmptyDict

(***************************************************************************)
(* Timestamps.                                                             *)
(***************************************************************************)
\* x - y, in seconds.
Diff(x, y) == (x.e - y.e) * unix2apple_epoch_delta + (x.v - y.v)

\* The value decode('NS.time') of record index gave its delegate.
TimeOf(index) ==
  LET f == Slot(dobjects, index).d["NS.time"] IN
  IF f.kind # "uid" THEN f
  ELSE IF f.v \in DOMAIN raw_ref THEN dheap[raw_ref[f.v]]
  ELSE dheap[unpacked_uids[f.v]]

\* The timestamps the decoder has built, by UID.
DecodedTimestamps ==
  {index \in DOMAIN unpacked_uids :
     /\ unpacked_uids[index] # CycleToken
     /\ dheap[unpacked_uids[index]].kind = "timestamp"}

\* The timestamps the encoder has written, by object.
EncodedTimestamps ==
  {obj \in DOMAIN ref_cache :
     /\ heap[obj].kind = "timestamp"
     /\ HasKey(Slot(objects, ref_cache[obj]), "NS.time")}

\* C16: over whole seconds, decoding a timestamp adds 978307200 to the
\* stored time and encoding subtracts it: time 0 decodes to Unix second
\* 978307200, time -978307200 decodes to Unix second 0, Unix second 0 is
\* written as time -978307200, and decoding what encoding wrote gives the
\* timestamp back.
C16_TimestampConversion ==
  /\ \A index \in DecodedTimestamps :
       LET t == dheap[unpacked_uids[index]]
           time == TimeOf(index)
       IN /\ Diff(t, time) = 978307200
          /\ (time.e = 0 /\ time.v = 0) => Seconds(t) = 978307200
          /\ (time.e = 0 - 1 /\ time.v = 0) => Seconds(t) = 0
  /\ \A obj \in EncodedTimestamps :
       LET time == Slot(objects, ref_cache[obj]).d["NS.time"] IN
       /\ Diff(time, heap[obj]) = 0 - 978307200
       /\ (heap[obj].e = 0 /\ heap[obj].v = 0) => Seconds(time) = 0 - 978307200
       /\ LET back == timestamp_of(<<time>>, 1) IN
          back.kind = "timestamp" /\ NumEq(back, heap[obj])

C16_Witness ==
  /\ phase = "done"
  /\ \E index \in DecodedTimestamps, obj \in EncodedTimestamps :
       /\ unpacked_uids[index] = obj
       /\ NumEq(dheap[obj], Ts(0))
       /\ NumEq(TimeOf(index), [e |-> 0 - 1, v |-> 0])
       /\ NumEq(Slot(objects, ref_cache[obj]).d["NS.time"], [e |-> 0 - 1, v |-> 0])
  /\ \E index \in DecodedTimestamps :
       NumEq(TimeOf(index), PFloat(0)) /\ Diff(dheap[unpacked_uids[index]], Ts(0)) = 978307200

(***************************************************************************)
(* The UIDs the encoder allocates.                                         *)
(***************************************************************************)
\* The UIDs the identity cache and the class cache hold, entry by entry.
CachedUIDs ==
  [e \in ({"ref"} \X DOMAIN ref_cache) \cup ({"class"} \X DOMAIN class_cache) |->
     IF e[1] = "ref" THEN ref_cache[e[2]] ELSE class_cache[e[2]]]

\* The UIDs the records written so far hold, class keys included.
WrittenUIDs ==
  UNION { UNION { FieldRefs(Slot(objects, i).d[k]) : k \in DOMAIN Slot(objects, i).d } :
            i \in {j \in UIDs : IsRec(Slot(objects, j))} }

\* C17: while encoding, slot 0 is the null slot and archive returns UID 0
\* for None only; a new UID is the length of the table when it is
\* allocated and its slot is appended in the same step, before anything
\* else is archived; so the UIDs of the identity cache and of the class
\* cache are pairwise distinct, and they and the UIDs in the records
\* written so far all index an existing slot.
C17_UIDAllocation ==
  /\ [](phase = "encode" =>
          /\ Slot(objects, 0) = NullSlot
          /\ (lastcall # NoCall => (lastcall.ret = 0 <=> lastcall.obj = None))
          /\ \A e \in DOMAIN CachedUIDs : CachedUIDs[e] \in UIDs \ {0}
          /\ \A e, f \in DOMAIN CachedUIDs : e # f => CachedUIDs[e] # CachedUIDs[f]
          /\ WrittenUIDs \subseteq UIDs
          /\ \A i \in UIDs :
               (IsRec(Slot(objects, i)) /\ HasKey(Slot(objects, i), "$class")) =>
                 \E name \in DOMAIN class_cache :
                   class_cache[name] = Slot(objects, i).d["$class"].v)
  /\ [][(phase = "encode" /\ phase' = "encode") =>
          /\ \A obj \in DOMAIN ref_cache' \ DOMAIN ref_cache :
               ref_cache'[obj] = Len(objects) /\ Len(objects') > Len(objects)
          /\ \A name \in DOMAIN class_cache' \ DOMAIN class_cache :
               class_cache'[name] = Len(objects) /\ Len(objects') > Len(objects)
          /\ \A i \in UIDs : i < Len(objects') /\ owner'[i + 1] = owner[i + 1]]_vars

\* a container that holds itself has been written: its record holds its own UID
C17_Witness ==
  /\ phase = "encode"
  /\ Cardinality(DOMAIN ref_cache) >= 2 /\ class_cache # EmptyDict
  /\ \E i \in UIDs :
       /\ IsRec(Slot(objects, i)) /\ ~IsMeta(Slot(objects, i))
       /\ i \in RecRefs(Slot(objects, i))
       /\ 0 \in RecRefs(Slot(objects, i))

(***************************************************************************)
(* Encoding graphs with cycles.                                            *)
(***************************************************************************)
Containers == {obj \in 1..Len(heap) : heap[obj].kind \in {"list", "dict"}}

\* The graph handed to dumps is made of lists, dicts and primitive values.
ListsAndDicts ==
  /\ root \in Containers
  /\ \A obj \in 1..Len(heap) : heap[obj].kind \in PrimitiveKinds \cup {"list", "dict"}

\* The objects a container holds.
Held(obj) ==
  IF heap[obj].kind = "list" THEN {heap[obj].items[i] : i \in 1..Len(heap[obj].items)}
  ELSE IF heap[obj].kind = "dict" THEN {heap[obj].vals[i] : i \in 1..Len(heap[obj].vals)}
  ELSE {}

\* The records of the table that are not class metadata.
DataRecords(objs) == {i \in 0..(Len(objs) - 1) : IsRec(Slot(objs, i)) /\ ~IsMeta(Slot(objs, i))}

\* The steps dumps takes on a graph within the bounds: three for an object,
\* two for a reference, three for the call itself.
StepBound == 3 * MaxObjs + 2 * MaxRefs + 3

\* C18: dumps of a graph of lists and dicts, cyclic ones included, ends, and
\* ends without an error, a cycle error in particular; the table it returns
\* holds exactly one record per container identity.
C18_CyclicEncoding ==
  /\ phase = "encode" => (steps <= StepBound /\ stack # <<>>)
  /\ ListsAndDicts =>
       /\ ~(phase = "failed" /\ archive = NoArchive)
       /\ err \notin {"RecursionError", "CircularReference"}
       /\ archive # NoArchive =>
            /\ \A obj \in Containers :
                 Cardinality({i \in DataRecords(archive.objects) : owner[i + 1] = obj}) = 1
            /\ Cardinality(DataRecords(archive.objects)) = Cardinality(Containers)

\* a list and a dict that hold each other, and a list that holds itself, encoded
C18_Witness ==
  /\ ListsAndDicts /\ archive # NoArchive
  /\ \E l, d \in Containers :
       /\ heap[l].kind = "list" /\ heap[d].kind = "dict"
       /\ d \in Held(l) /\ l \in Held(d)

(***************************************************************************)
(* The cycle sentinel.                                                     *)
(***************************************************************************)
\* The UIDs whose cache entry is the sentinel.
Sentinels == {u \in DOMAIN unpacked_uids : unpacked_uids[u] = CycleToken}

\* The references a decoded object holds.
DecodedRefs(o) ==
  IF o.kind \in {"list", "set", "MutableArray", "MutableSet"}
  THEN {o.items[i] : i \in 1..Len(o.items)}
  ELSE IF o.kind \in {"dict", "MutableDict"}
  THEN {o.keys[i] : i \in 1..Len(o.keys)} \cup {o.vals[i] : i \in 1..Len(o.vals)}
  ELSE IF o.kind = "opaque" THEN {o.vals[i] : i \in 1..Len(o.vals)}
  ELSE {}

\* loads has returned a value to its caller.
LoadsReturned == LoadsOver /\ todo = <<>>

\* C19: a dereference that finds the sentinel in the cache raises
\* CircularReference; the sentinel is the cache entry of a UID only while
\* the delegate that replaces it is running, or after loads has failed; no
\* return of decode_object is the sentinel; once loads has returned, no
\* cache entry is the sentinel and no object of the returned graph holds it.
C19_SentinelConfined ==
  /\ [][(Dereferencing /\ Top.index \in Sentinels)
          => (phase' = "failed" /\ err' = "CircularReference" /\ result' = None)]_vars
  /\ [](/\ \A u \in Sentinels :
             \/ phase = "failed"
             \/ \E k \in 1..Len(stack) : stack[k].op = "timestamp" /\ stack[k].index = u
        /\ \A u \in DOMAIN derefs : CycleToken \notin derefs[u].objs
        /\ \A k \in 1..Len(stack) : "val" \in DOMAIN stack[k] => stack[k].val # CycleToken
        /\ LoadsReturned =>
             /\ Sentinels = {}
             /\ result # CycleToken
             /\ \A obj \in 1..Len(dheap) : CycleToken \notin DecodedRefs(dheap[obj]))

\* loads has returned a graph in which a container holds a timestamp built
\* by a delegate that replaces the sentinel
C19_Witness ==
  /\ LoadsReturned
  /\ \E u \in DOMAIN unpacked_uids :
       /\ LeadingName(dobjects, u) = "NSDate"
       /\ Known(Slot(dobjects, u).d, "NS.time", "uid")
       /\ dheap[unpacked_uids[u]].kind = "timestamp"
       /\ \E obj \in 1..Len(dheap) : unpacked_uids[u] \in DecodedRefs(dheap[obj])

(***************************************************************************)
(* Primitive values in the table the encoder writes.                       *)
(***************************************************************************)
\* The primitive values archive has been called with.
ArchivedPrimitives == {o \in DOMAIN ref_cache : heap[o].kind \in PrimitiveKinds}

\* The fields of record i other than its class key.
Fields(i) == DOMAIN Slot(objects, i).d \ {"$class"}

\* Every primitive value archive was called with has a slot of its own that
\* holds the value itself.
PrimitivesSlotted ==
  /\ \A o \in ArchivedPrimitives :
       Slot(objects, ref_cache[o]) = heap[o] /\ owner[ref_cache[o] + 1] = o
  /\ \A o, p \in ArchivedPrimitives : o # p => ref_cache[o] # ref_cache[p]

\* C20 as the specification states it: every primitive value the encoder
\* encodes has a slot of its own, and a record references it by UID, so no
\* field of a record holds a primitive value itself.
C20_EveryPrimitiveSlotted ==
  phase = "encode" =>
    /\ PrimitivesSlotted
    /\ \A i \in DataRecords(objects) : \A k \in Fields(i) :
         Slot(objects, i).d[k].kind \in {"uid", "uids"}

\* The field written for attribute j of the instance o that record i encodes:
\* a bool, int or float as it is, any other value as the UID archive returned.
FieldOf(i, o, j) ==
  LET f == Slot(objects, i).d[o.attrs[j]]
      v == o.vals[j]
  IN IF v # None /\ heap[v].kind \in {"int", "float", "bool"} THEN f = heap[v]
     ELSE /\ f.kind = "uid"
          /\ f.v = IF v = None THEN 0 ELSE ref_cache[v]

\* C20: while encoding, every primitive value archive is called with, the
\* root, a container element, a dict key or value, or a text, bytes or UID
\* field a delegate emits, has a slot of its own holding the value itself,
\* and records reference it by that slot's UID; the records of lists, sets
\* and dicts hold UIDs only; a bool, int or float field a delegate emits is
\* stored in the delegate's record as it is and gets no slot.
C20_PrimitiveSlots ==
  phase = "encode" =>
    /\ PrimitivesSlotted
    /\ \A i \in DataRecords(objects) : \A k \in Fields(i) :
         LET f == Slot(objects, i).d[k]
             o == heap[owner[i + 1]]
         IN /\ f.kind \in {"uid", "uids"} \cup {"int", "float", "bool"}
            /\ f.kind \in {"int", "float", "bool"} => o.kind \in {"timestamp", "opaque"}
            /\ f.kind = "uid" => (f.v = 0 \/ \E p \in DOMAIN ref_cache : ref_cache[p] = f.v)
    /\ \A i \in DataRecords(objects) :
         LET o == heap[owner[i + 1]] IN
         o.kind = "opaque" =>
           \A j \in 1..Len(o.attrs) : o.attrs[j] \in Fields(i) => FieldOf(i, o, j)

\* an instance encoded with an int field kept in its record and a field that
\* references the slot of a string
C20_Witness ==
  /\ phase = "encode"
  /\ \E i \in DataRecords(objects) :
       /\ heap[owner[i + 1]].kind = "opaque"
       /\ Fields(i) = {"x", "y"}
       /\ Slot(objects, i).d["x"] = PInt(1)
       /\ Slot(objects, i).d["y"].kind = "uid"
       /\ Slot(objects, Slot(objects, i).d["y"].v) = PStr("a")

(***************************************************************************)
(* The types the opaque registry fabricates.                               *)
(***************************************************************************)
\* The UIDs of the records loads has decoded to instances of fabricated types.
FabricatedUIDs ==
  {u \in DOMAIN unpacked_uids :
     unpacked_uids[u] # CycleToken /\ dheap[unpacked_uids[u]].kind = "opaque"}

\* Records of one class name are instances of one fabricated type.
SameNameSameType ==
  \A u, w \in FabricatedUIDs :
    LeadingName(dobjects, u) = LeadingName(dobjects, w) =>
      dheap[unpacked_uids[u]].cls = dheap[unpacked_uids[w]].cls

\* C21: in one call of loads with the opaque registry, records of one class
\* name are instances of one fabricated type, and the reverse lookup of the
\* type fabricated for a record gives back exactly the class chain of the
\* record's metadata, whatever chains were resolved before.
C21_ChainFidelity ==
  /\ SameNameSameType
  /\ \A u \in FabricatedUIDs :
       OpaqueClassMap_get_class_chain(types, dheap[unpacked_uids[u]].cls)
         = ChainOf(dobjects, u)

(***************************************************************************)
(* One call after another.                                                 *)
(***************************************************************************)
\* The registry a call that passes the mapping new_map works with.
RegistryFor(new_map) == DefaultClassMap_update(DefaultClassMap_init, new_map)

\* A call of dumps or loads is running.
InCall == phase \in {"encode", "decode"}

====
